---------------------------- MODULE Spec2Model ----------------------------
(***************************************************************************)
(* A model of src/instructions.rs: the x86-64 instruction wrappers         *)
(* (interrupt flag, descriptor-table loads, halt, time stamp counter,      *)
(* model specific registers, port I/O).                                    *)
(*                                                                         *)
(* Values.  An n-byte machine integer is the sequence of its n base-256    *)
(* digits, most significant digit first (0x0102 is <<1, 2>>), so that the  *)
(* full 32- and 64-bit ranges are covered.  Casts, shifts by a whole       *)
(* number of bytes and bitwise or are computed on the digits.  Memory is   *)
(* byte addressed and little-endian: storing a value writes its digits in  *)
(* reverse order.                                                          *)
(*                                                                         *)
(* Inline assembly.  An asm! block is modelled by (1) binding the input    *)
(* operands to the registers their constraints name, (2) the effect of the *)
(* instruction of the template on the register file and on the CPU and     *)
(* device state, as the instruction set defines it for 64-bit mode, and    *)
(* (3) reading the output operands back from their registers.              *)
(***************************************************************************)
EXTENDS Integers, Sequences, FiniteSets, TLC

VARIABLES
    ret,        \* value returned by the last operation (<<>> if none)
    lastOp,     \* the last operation called, its arguments, what the CPU handed it
    msrs,       \* the model specific registers: index -> 64-bit value
    shadow,     \* per MSR, the value of the last wrmsr to it (<<>>: none)
    ports,      \* the loopback device: port -> the value latched by the last write
    portShadow, \* per port, the value passed to the last out* call (<<>>: none)
    mem,        \* memory: address -> byte
    rep,        \* the REP string instruction in progress, its registers
    xfer,       \* the unit transfers of the last buffered port operation
    intFlag,    \* the interrupt-enable flag of RFLAGS
    pc,         \* "run", "halted" (after hlt) or "handler" (interrupt handler)
    stack,      \* the interrupt frames pushed by deliveries not yet returned from
    flagOp,     \* the last of enable_interrupts ("sti") / disable_interrupts ("cli")
    lastIrq,    \* the last interrupt delivered and the state it found
    irqCount,   \* number of interrupts delivered so far
    woken,      \* an interrupt was delivered since the last halt()
    gdtr, ldtr, idtr, tr,  \* descriptor table registers and task register
    dtp,        \* the DescriptorTablePointer last constructed in memory
    dtShadow    \* per table operation, the operand of its last call

varsCommon == <<ret, lastOp>>
varsMsr == <<msrs, shadow>>
varsPort == <<ports, portShadow>>
varsRep == <<mem, rep, xfer>>
varsIrq == <<intFlag, pc, stack, flagOp, lastIrq, irqCount, woken>>
varsDt == <<gdtr, ldtr, idtr, tr, dtp, dtShadow>>
vars == <<ret, lastOp, msrs, shadow, ports, portShadow, mem, rep, xfer,
          intFlag, pc, stack, flagOp, lastIrq, irqCount, woken,
          gdtr, ldtr, idtr, tr, dtp, dtShadow>>

---------------------------------------------------------------------------
(* Bounds of the model *)

\* number of patterned sample values besides all-zeros and all-ones
NumPatterns == 1
\* number of interrupts the environment delivers in one behaviour
MaxIrqs == 2
\* longest buffer handed to a buffered port operation
MaxBufLen == 2

---------------------------------------------------------------------------
(* Machine integers as digit sequences *)

Zeros(n) == [i \in 1..n |-> 0]
Ones(n) == [i \in 1..n |-> 255]
\* digits k, k+1, ...: all distinct, so any mixing of bytes shows
Pattern(k, n) == [i \in 1..n |-> (16 * k + i) % 256]

Samples(n) == {Zeros(n), Ones(n)} \cup {Pattern(k, n) : k \in 1..NumPatterns}

U8Vals == Samples(1)
U16Vals == Samples(2)
U32Vals == Samples(4)
\* every pairing of two 32-bit samples
U64Vals == {h \o l : h \in U32Vals, l \in U32Vals}

\* `x as uN` / `uN::from(x)` to a wider type: zero extension
ZeroExtend(v, n) == Zeros(n - Len(v)) \o v
\* `x as uN` to a narrower type: keeps the n least significant bytes
Truncate(v, n) == SubSeq(v, Len(v) - n + 1, Len(v))
\* `x as uN`
CastTo(v, n) == IF n >= Len(v) THEN ZeroExtend(v, n) ELSE Truncate(v, n)
\* `x >> bits` and `x << bits` on an unsigned value, bits a multiple of 8
Shr(v, bits) == Zeros(bits \div 8) \o SubSeq(v, 1, Len(v) - bits \div 8)
Shl(v, bits) == SubSeq(v, bits \div 8 + 1, Len(v)) \o Zeros(bits \div 8)

RECURSIVE BitOr(_, _)
BitOr(a, b) ==
    IF a = 0 THEN b
    ELSE IF b = 0 THEN a
    ELSE (IF a % 2 = 1 \/ b % 2 = 1 THEN 1 ELSE 0)
         + 2 * BitOr(a \div 2, b \div 2)
\* `x | y` on two values of the same width
Or(x, y) == [i \in 1..Len(x) |-> BitOr(x[i], y[i])]

\* most and least significant 32 bits of a 64-bit value
High32(v) == SubSeq(v, 1, 4)
Low32(v) == SubSeq(v, 5, 8)

---------------------------------------------------------------------------
(* The register file and operand constraints *)

RegFamilies == {"a", "c", "d", "si", "di"}

\* the register family a constraint or template register name belongs to
RegFam(name) ==
    CASE name \in {"al", "ax", "eax", "rax"} -> "a"
      [] name \in {"cl", "cx", "ecx", "rcx"} -> "c"
      [] name \in {"dl", "dx", "edx", "rdx"} -> "d"
      [] name \in {"si", "esi", "rsi"} -> "si"
      [] name \in {"di", "edi", "rdi"} -> "di"

\* the width in bytes the name itself denotes
RegWidth(name) ==
    CASE name \in {"al", "cl", "dl"} -> 1
      [] name \in {"ax", "cx", "dx", "si", "di"} -> 2
      [] name \in {"eax", "ecx", "edx", "esi", "edi"} -> 4
      [] name \in {"rax", "rcx", "rdx", "rsi", "rdi"} -> 8

\* register contents the compiler left behind before an asm! block
GarbageRegs == {[f \in RegFamilies |-> Zeros(8)], [f \in RegFamilies |-> Ones(8)]}

\* the instruction reads the register `name`
ReadReg(rf, name) == Truncate(rf[RegFam(name)], RegWidth(name))

\* a write of v to the sub-register of family fam as wide as v: a 32-bit
\* write clears the upper half, 8- and 16-bit writes keep the other bytes
WriteFam(rf, fam, v) ==
    [rf EXCEPT ![fam] =
        IF Len(v) = 8 THEN v
        ELSE IF Len(v) = 4 THEN ZeroExtend(v, 8)
        ELSE SubSeq(rf[fam], 1, 8 - Len(v)) \o v]

\* the instruction writes v to the register `name`
WriteReg(rf, name, v) == WriteFam(rf, RegFam(name), CastTo(v, RegWidth(name)))

\* (the register taken as named, whatever the operand's width)
BindInNarrow(rf, name, v) == WriteFam(rf, RegFam(name), Truncate(v, RegWidth(name)))
\* an input operand "{name}"(v): the value is placed in the register of
\* name's family that is as wide as v (the code generator matches the named
\* register to the operand's type)
BindIn(rf, name, v) == WriteFam(rf, RegFam(name), v)

\* an output operand "={name}"(x) with x of w bytes: read from the register
\* of name's family that is w bytes wide
BindOut(rf, name, w) == Truncate(rf[RegFam(name)], w)

---------------------------------------------------------------------------
(* Time stamp counter and model specific registers *)

MsrIndexes == {Zeros(4), Pattern(1, 4)}
NoValue == <<>>

NoOp == [op |-> "none"]

\* `rdtsc` / `rdtscp`: the counter's halves arrive in EDX (high) and EAX (low)
CpuRdtsc(rf, hi, lo) == WriteReg(WriteReg(rf, "eax", lo), "edx", hi)

\* `rdmsr`: MSR[ECX] arrives in EDX:EAX
CpuRdmsr(rf, bank) ==
    LET v == bank[ReadReg(rf, "ecx")]
    IN  WriteReg(WriteReg(rf, "eax", Low32(v)), "edx", High32(v))

\* (a torn write: only the low half, EAX, has reached the register)
CpuWrmsrLowOnly(rf, bank) ==
    [bank EXCEPT ![ReadReg(rf, "ecx")] = High32(@) \o ReadReg(rf, "eax")]
\* `wrmsr`: MSR[ECX] := EDX:EAX, in one instruction
CpuWrmsr(rf, bank) ==
    [bank EXCEPT ![ReadReg(rf, "ecx")] = ReadReg(rf, "edx") \o ReadReg(rf, "eax")]

\* (the halves exchanged)
RdtscSwapped(high, low) == Or(Shl(ZeroExtend(low, 8), 32), ZeroExtend(high, 8))
\* ((u64::from(high)) << 32) | (u64::from(low))
RdtscValue(high, low) == Or(Shl(ZeroExtend(high, 8), 32), ZeroExtend(low, 8))

\* ((high as u64) << 32) | (low as u64)
RdtscpValue(high, low) == Or(Shl(CastTo(high, 8), 32), CastTo(low, 8))
RdmsrValue(high, low) == Or(Shl(CastTo(high, 8), 32), CastTo(low, 8))

\* (the shift forgotten)
WrmsrNoShift(value) == [low |-> CastTo(value, 4), high |-> CastTo(value, 4)]
\* let low = value as u32; let high = (value >> 32) as u32;
WrmsrHalves(value) == [low |-> CastTo(value, 4), high |-> CastTo(Shr(value, 32), 4)]

rdtsc ==
    \E hi \in U32Vals, lo \in U32Vals, rf0 \in GarbageRegs :
        LET rf1 == CpuRdtsc(rf0, hi, lo)
            low == BindOut(rf1, "eax", 4)
            high == BindOut(rf1, "edx", 4)
        IN  /\ ret' = RdtscValue(high, low)
            /\ lastOp' = [op |-> "rdtsc", high |-> hi, low |-> lo]
            /\ UNCHANGED varsMsr

rdtscp ==
    \E hi \in U32Vals, lo \in U32Vals, rf0 \in GarbageRegs :
        LET rf1 == CpuRdtsc(rf0, hi, lo)
            low == BindOut(rf1, "eax", 4)
            high == BindOut(rf1, "edx", 4)
        IN  /\ ret' = RdtscpValue(high, low)
            /\ lastOp' = [op |-> "rdtscp", high |-> hi, low |-> lo]
            /\ UNCHANGED varsMsr

wrmsr(msr, value) ==
    /\ pc = "run"
    /\ \E rf0 \in GarbageRegs :
        LET low == WrmsrHalves(value).low
            high == WrmsrHalves(value).high
            rf1 == BindIn(BindIn(BindIn(rf0, "ecx", msr), "eax", low), "edx", high)
        IN  msrs' = CpuWrmsr(rf1, msrs)
    /\ shadow' = [shadow EXCEPT ![msr] = value]
    /\ ret' = NoValue
    /\ lastOp' = [op |-> "wrmsr", msr |-> msr, value |-> value]

rdmsr(msr) ==
    \E rf0 \in GarbageRegs :
        LET rf1 == CpuRdmsr(BindIn(rf0, "ecx", msr), msrs)
            low == BindOut(rf1, "eax", 4)
            high == BindOut(rf1, "edx", 4)
        IN  /\ ret' = RdmsrValue(high, low)
            /\ lastOp' = [op |-> "rdmsr", msr |-> msr,
                           high |-> ReadReg(rf1, "edx"), low |-> ReadReg(rf1, "eax")]
            /\ UNCHANGED varsMsr

---------------------------------------------------------------------------
(* Scalar port I/O against a loopback device *)

PortNumbers == {Pattern(1, 2), Ones(2)}

\* `out %al/%ax/%eax, %dx`: the device at port DX latches the data register
CpuOut(rf, dataReg, dev) == [dev EXCEPT ![ReadReg(rf, "dx")] = ReadReg(rf, dataReg)]

\* `in %dx, %al/%ax/%eax`: the data register receives what the device at
\* port DX drives: the latched value when it was written with this width,
\* else whatever is on the bus
CpuIn(rf, dataReg, dev, bus) ==
    LET latch == dev[ReadReg(rf, "dx")]
    IN  WriteReg(rf, dataReg,
                 IF Len(latch) = RegWidth(dataReg) THEN latch ELSE bus)

PortOut(name, dataReg, port, val) ==
    /\ pc = "run"
    /\ \E rf0 \in GarbageRegs :
        ports' = CpuOut(BindIn(BindIn(rf0, "dx", port), "al", val), dataReg, ports)
    /\ portShadow' = [portShadow EXCEPT ![port] = val]
    /\ ret' = NoValue
    /\ lastOp' = [op |-> name, port |-> port, value |-> val]

PortIn(name, dataReg, port, w) ==
    /\ pc = "run"
    /\ \E rf0 \in GarbageRegs, bus \in {Zeros(w), Ones(w)} :
        ret' = BindOut(CpuIn(BindIn(rf0, "dx", port), dataReg, ports, bus), "ax", w)
    /\ lastOp' = [op |-> name, port |-> port, width |-> w]
    /\ UNCHANGED varsPort

\* asm!("outb %al, %dx" :: "{dx}"(port), "{al}"(val));
outb(port, val) == PortOut("outb", "al", port, val)
\* asm!("inb %dx, %al" : "={ax}"(ret) : "{dx}"(port) :: "volatile");
inb(port) == PortIn("inb", "al", port, 1)
\* asm!("outw %ax, %dx" :: "{dx}"(port), "{al}"(val));
outw(port, val) == PortOut("outw", "ax", port, val)
\* asm!("inw %dx, %ax" : "={ax}"(ret) : "{dx}"(port) :: "volatile");
inw(port) == PortIn("inw", "ax", port, 2)
\* asm!("outl %eax, %dx" :: "{dx}"(port), "{al}"(val));
outl(port, val) == PortOut("outl", "eax", port, val)
\* asm!("inl %dx, %eax" : "={ax}"(ret) : "{dx}"(port) :: "volatile");
inl(port) == PortIn("inl", "eax", port, 4)

---------------------------------------------------------------------------
(* Interrupt flag, halt, interrupt delivery *)

\* `sti` sets and `cli` clears the interrupt-enable flag
CpuSti(flag) == TRUE
\* (a cli that is not executed)
CpuCliNoEffect(flag) == flag
CpuCli(flag) == FALSE

\* (a hlt the compiler dropped)
CpuHltElided == "run"
\* `hlt`: the core stops executing instructions
CpuHlt == "halted"

NoIrq == [kind |-> "none"]

\* asm!("sti");
enable_interrupts ==
    /\ pc = "run"
    /\ intFlag' = CpuSti(intFlag)
    /\ flagOp' = "sti"
    /\ lastOp' = [op |-> "enable_interrupts"]
    /\ ret' = NoValue
    /\ UNCHANGED <<pc, stack, lastIrq, irqCount, woken>>

\* asm!("cli");
disable_interrupts ==
    /\ pc = "run"
    /\ intFlag' = CpuCli(intFlag)
    /\ flagOp' = "cli"
    /\ lastOp' = [op |-> "disable_interrupts"]
    /\ ret' = NoValue
    /\ UNCHANGED <<pc, stack, lastIrq, irqCount, woken>>

\* asm!("hlt" :::: "volatile");
halt ==
    /\ pc = "run"
    /\ pc' = CpuHlt
    /\ woken' = FALSE
    /\ lastOp' = [op |-> "halt"]
    /\ ret' = NoValue
    /\ UNCHANGED <<intFlag, stack, flagOp, lastIrq, irqCount>>

\* The CPU delivers an interrupt at an instruction boundary (or between
\* two iterations of a REP string instruction, or out of the halted state):
\* it pushes the flags and the address to resume at (after the hlt when
\* halted) and enters the handler.  A maskable interrupt needs the flag
\* set; a non-maskable one ignores the flag and is blocked only while an
\* earlier one is being handled.  Through an interrupt gate the flag is
\* cleared for the handler, through a trap gate it is left as it is.
Deliver(kind, gate) ==
    /\ irqCount < MaxIrqs
    /\ kind = "maskable" => intFlag
    /\ kind = "nmi" => \A i \in 1..Len(stack) : stack[i].kind # "nmi"
    /\ stack' = Append(stack, [flag |-> intFlag, kind |-> kind,
                               pc |-> IF pc = "halted" THEN "run" ELSE pc])
    /\ pc' = "handler"
    /\ intFlag' = IF gate = "interrupt" THEN FALSE ELSE intFlag
    /\ lastIrq' = [kind |-> kind, flagOp |-> flagOp, from |-> pc]
    /\ irqCount' = irqCount + 1
    /\ woken' = IF pc = "halted" THEN TRUE ELSE woken
    /\ UNCHANGED <<flagOp, varsCommon>>

\* the handler returns: flags and resume address are popped
Iret ==
    /\ pc = "handler"
    /\ stack # <<>>
    /\ pc' = stack[Len(stack)].pc
    /\ intFlag' = stack[Len(stack)].flag
    /\ stack' = SubSeq(stack, 1, Len(stack) - 1)
    /\ UNCHANGED <<flagOp, lastIrq, irqCount, woken, varsCommon>>

InitIrqVars ==
    /\ intFlag \in BOOLEAN
    /\ pc = "run"
    /\ stack = <<>>
    /\ flagOp = "none"
    /\ lastIrq = NoIrq
    /\ irqCount = 0
    /\ woken = FALSE

---------------------------------------------------------------------------
(* Memory *)

\* v + n on an unsigned value of Len(v) bytes, wrapping at its width
RECURSIVE AddN(_, _)
AddN(v, n) ==
    IF Len(v) = 0 THEN <<>>
    ELSE AddN(SubSeq(v, 1, Len(v) - 1), (v[Len(v)] + n) \div 256)
         \o <<(v[Len(v)] + n) % 256>>

\* v - 1, wrapping at the width of v
RECURSIVE SubOne(_)
SubOne(v) ==
    IF Len(v) = 0 THEN <<>>
    ELSE IF v[Len(v)] > 0 THEN SubSeq(v, 1, Len(v) - 1) \o <<v[Len(v)] - 1>>
    ELSE SubOne(SubSeq(v, 1, Len(v) - 1)) \o <<255>>

\* the n-byte value n written in digits
ToDigits(n, w) == AddN(Zeros(w), n)

\* little-endian store and load of a value at a 64-bit address: the least
\* significant byte goes to the lowest address
RECURSIVE StoreLE(_, _, _)
StoreLE(m, addr, v) ==
    IF Len(v) = 0 THEN m
    ELSE StoreLE([m EXCEPT ![addr] = v[Len(v)]], AddN(addr, 1),
                 SubSeq(v, 1, Len(v) - 1))
LoadLE(m, addr, n) == [i \in 1..n |-> m[AddN(addr, n - i)]]

Range(base, n) == {AddN(base, k) : k \in 0..(n - 1)}

---------------------------------------------------------------------------
(* DescriptorTablePointer and the table registers *)

\* #[repr(C, packed)] struct DescriptorTablePointer { limit: u16, base: u64 }
DtpFields == <<[name |-> "limit", size |-> 2], [name |-> "base", size |-> 8]>>

\* (without `packed`: the natural alignment of an integer field)
FieldAlignNatural(size) == size
\* alignment of a field: `packed` lowers every field's alignment to 1
FieldAlign(size) == 1

AlignUp(x, a) == ((x + a - 1) \div a) * a

\* repr(C): fields in declaration order, each at the next offset that is a
\* multiple of its alignment
RECURSIVE FieldOffset(_)
FieldOffset(i) ==
    IF i = 1 THEN 0
    ELSE AlignUp(FieldOffset(i - 1) + DtpFields[i - 1].size,
                 FieldAlign(DtpFields[i].size))

\* the size is the end of the last field rounded up to the struct's alignment
DtpSize ==
    LET n == Len(DtpFields)
        align == CHOOSE a \in {FieldAlign(DtpFields[i].size) : i \in 1..n} :
                    \A i \in 1..n : FieldAlign(DtpFields[i].size) <= a
    IN  AlignUp(FieldOffset(n) + DtpFields[n].size, align)

\* where the caller keeps its DescriptorTablePointer (above 4 GiB)
DtpAddr == <<0, 0, 0, 1, 0, 0, 32, 0>>
DtRegion == Range(DtpAddr, 16)

DtLimits == {Ones(2), Pattern(1, 2)}
\* table addresses; the CPU requires them canonical (bits 63..47 equal)
DtBases == {Ones(8)} \cup {<<0, 0>> \o Pattern(k, 6) : k \in 1..NumPatterns}
Selectors == {Pattern(1, 2), Ones(2)}
\* what the GDT entry named by a selector may describe (the table's
\* contents are the caller's)
LdtDescriptors == {[limit |-> Zeros(2), base |-> Zeros(8)],
                   [limit |-> Ones(2), base |-> <<0, 0>> \o Pattern(1, 6)]}

NoDtp == [addr |-> NoValue]

\* the caller builds DescriptorTablePointer { limit, base } in memory
NewDescriptorTablePointer(limit, base) ==
    /\ pc = "run"
    /\ mem' = StoreLE(StoreLE(mem, AddN(DtpAddr, FieldOffset(1)), limit),
                      AddN(DtpAddr, FieldOffset(2)), base)
    /\ dtp' = [addr |-> DtpAddr, limit |-> limit, base |-> base]
    /\ lastOp' = [op |-> "DescriptorTablePointer"]
    /\ ret' = NoValue
    /\ UNCHANGED <<gdtr, ldtr, idtr, tr, dtShadow>>

\* `lgdt m` / `lidt m` in 64-bit mode: a 2-byte limit at m, an 8-byte base at m+2
CpuLoadTable(m, addr) ==
    [limit |-> LoadLE(m, addr, 2), base |-> LoadLE(m, AddN(addr, 2), 8)]

\* `lldt m16`: the operand is a 16-bit segment selector; the base and limit
\* of the LDT come from the GDT entry the selector names
CpuLldt(m, addr, desc) ==
    [sel |-> LoadLE(m, addr, 2), limit |-> desc.limit, base |-> desc.base]

\* `ltr r16`: the task register receives the selector
CpuLtr(sel) == [sel |-> sel]

\* asm!("lgdt ($0)" :: "r" (gdt) : "memory");
lgdt ==
    /\ pc = "run"
    /\ dtp # NoDtp
    /\ gdtr' = CpuLoadTable(mem, dtp.addr)
    /\ dtShadow' = [dtShadow EXCEPT !.lgdt = [limit |-> dtp.limit, base |-> dtp.base]]
    /\ lastOp' = [op |-> "lgdt"]
    /\ ret' = NoValue
    /\ UNCHANGED <<ldtr, idtr, tr, dtp, mem>>

\* asm!("lldt ($0)" :: "r" (ldt) : "memory");
lldt ==
    /\ pc = "run"
    /\ dtp # NoDtp
    /\ \E desc \in LdtDescriptors : ldtr' = CpuLldt(mem, dtp.addr, desc)
    /\ dtShadow' = [dtShadow EXCEPT !.lldt = [limit |-> dtp.limit, base |-> dtp.base]]
    /\ lastOp' = [op |-> "lldt"]
    /\ ret' = NoValue
    /\ UNCHANGED <<gdtr, idtr, tr, dtp, mem>>

\* asm!("lidt ($0)" :: "r" (idt) : "memory");
lidt ==
    /\ pc = "run"
    /\ dtp # NoDtp
    /\ idtr' = CpuLoadTable(mem, dtp.addr)
    /\ dtShadow' = [dtShadow EXCEPT !.lidt = [limit |-> dtp.limit, base |-> dtp.base]]
    /\ lastOp' = [op |-> "lidt"]
    /\ ret' = NoValue
    /\ UNCHANGED <<gdtr, ldtr, tr, dtp, mem>>

\* asm!("ltr $0" :: "r" (sel.bits()));
load_tss(sel) ==
    /\ pc = "run"
    /\ tr' = CpuLtr(sel)
    /\ dtShadow' = [dtShadow EXCEPT !.load_tss = sel]
    /\ lastOp' = [op |-> "load_tss"]
    /\ ret' = NoValue
    /\ UNCHANGED <<gdtr, ldtr, idtr, dtp, mem>>

InitDtVars ==
    /\ gdtr = [limit |-> Zeros(2), base |-> Zeros(8)]
    /\ idtr = [limit |-> Zeros(2), base |-> Zeros(8)]
    /\ ldtr = [sel |-> Zeros(2), limit |-> Zeros(2), base |-> Zeros(8)]
    /\ tr = [sel |-> Zeros(2)]
    /\ dtp = NoDtp
    /\ dtShadow = [lgdt |-> NoValue, lldt |-> NoValue, lidt |-> NoValue,
                   load_tss |-> NoValue]

---------------------------------------------------------------------------
(* Buffered port I/O *)

\* where callers keep their buffers: one below 4 GiB, one above
LowBuf == <<0, 0, 0, 0, 0, 0, 16, 0>>
HighBuf == <<0, 0, 0, 1, 0, 0, 16, 0>>
BufRegion == Range(LowBuf, 4 * MaxBufLen) \cup Range(HighBuf, 4 * MaxBufLen)
\* a slice: buf.as_ptr() and buf.len()
Slices == [ptr : {LowBuf, HighBuf}, len : 0..MaxBufLen]

\* the k-th unit the device at the port delivers to a read
DeviceData(k, w) == Ones(w)

RepOps == {"outsb", "insb", "outsw", "insw", "outsl", "insl"}
NoRep == [active |-> FALSE]

\* The asm! block of a buffered operation up to the first iteration of its
\* instruction: the operands are bound ("{ecx}"(buf.len()), "{dx}"(port),
\* "{esi}" or "{edi}"(buf.as_ptr())), and the instruction `rep outs (%esi),
\* %dx` / `rep ins %dx, (%edi)` starts.  Its memory operand names a 32-bit
\* register, so it is encoded with 32-bit address size: the address is the
\* register `addrReg` zero-extended and the repeat count is ECX.
RepStart(name, dir, w, addrReg, port, buf) ==
    /\ pc = "run"
    /\ ~rep.active
    /\ \E rf0 \in GarbageRegs :
        LET rf1 == BindIn(BindIn(BindIn(rf0, "ecx", ToDigits(buf.len, 8)),
                                 "dx", port), addrReg, buf.ptr)
        IN  rep' = [active |-> TRUE, dir |-> dir, w |-> w,
                    count |-> ReadReg(rf1, "ecx"),
                    port |-> ReadReg(rf1, "dx"),
                    ptr |-> ReadReg(rf1, addrReg)]
    /\ xfer' = <<>>
    /\ lastOp' = [op |-> name, port |-> port, ptr |-> buf.ptr, len |-> buf.len, w |-> w]
    /\ ret' = NoValue
    /\ UNCHANGED mem

\* One iteration of the REP instruction (direction flag clear): when the
\* count is zero the instruction is complete and the operation returns;
\* otherwise one unit moves between the port and memory at the address
\* register, the register advances by the unit size and the count drops by
\* one.  Interrupts are taken between iterations.
RepStep ==
    /\ pc = "run"
    /\ rep.active
    /\ IF rep.count = Zeros(Len(rep.count))
       THEN /\ rep' = NoRep
            /\ UNCHANGED <<mem, xfer>>
       ELSE LET ea == ZeroExtend(rep.ptr, 8)
            IN  /\ rep' = [rep EXCEPT !.count = SubOne(@), !.ptr = AddN(@, rep.w)]
                /\ IF rep.dir = "out"
                   THEN /\ xfer' = Append(xfer, [port |-> rep.port, addr |-> ea,
                                                 val |-> LoadLE(mem, ea, rep.w)])
                        /\ UNCHANGED mem
                   ELSE LET v == DeviceData(Len(xfer) + 1, rep.w)
                        IN  /\ xfer' = Append(xfer, [port |-> rep.port, addr |-> ea,
                                                     val |-> v])
                            /\ mem' = StoreLE(mem, ea, v)
    /\ UNCHANGED varsCommon

\* asm!("rep outsb (%esi), %dx" :: "{ecx}"(buf.len()), "{dx}"(port), "{esi}"(buf.as_ptr()) ...
outsb(port, buf) == RepStart("outsb", "out", 1, "esi", port, buf)
\* asm!("rep insb %dx, (%edi)" :: "{ecx}"(buf.len()), "{dx}"(port), "{edi}"(buf.as_ptr()) ...
insb(port, buf) == RepStart("insb", "in", 1, "edi", port, buf)
outsw(port, buf) == RepStart("outsw", "out", 2, "esi", port, buf)
insw(port, buf) == RepStart("insw", "in", 2, "edi", port, buf)
outsl(port, buf) == RepStart("outsl", "out", 4, "esi", port, buf)
insl(port, buf) == RepStart("insl", "in", 4, "edi", port, buf)

\* what the buffers hold at first: a different byte at every address
InitByte(a) == a[8] + 1 + 100 * a[4]

---------------------------------------------------------------------------
(* Specifications *)

InitCommon == ret = NoValue /\ lastOp = NoOp
InitMsrVars(vals) ==
    /\ msrs \in [MsrIndexes -> vals]
    /\ shadow = [i \in MsrIndexes |-> NoValue]
InitPortVars ==
    /\ ports = [p \in PortNumbers |-> NoValue]
    /\ portShadow = [p \in PortNumbers |-> NoValue]
InitRepVars(region) ==
    /\ mem = [a \in region |-> InitByte(a)]
    /\ rep = NoRep
    /\ xfer = <<>>
InitQuiet ==
    \* interrupts play no part: none is delivered
    /\ intFlag = FALSE /\ pc = "run" /\ stack = <<>> /\ flagOp = "none"
    /\ lastIrq = NoIrq /\ irqCount = 0 /\ woken = FALSE

\* time stamp counter and model specific registers
Init ==
    /\ InitCommon /\ InitMsrVars({Zeros(8), Ones(8)}) /\ InitPortVars
    /\ InitRepVars({}) /\ InitQuiet /\ InitDtVars
Next ==
    /\ \/ rdtsc
       \/ rdtscp
       \/ \E i \in MsrIndexes, v \in U64Vals : wrmsr(i, v)
       \/ \E i \in MsrIndexes : rdmsr(i)
    /\ UNCHANGED <<varsPort, varsRep, varsIrq, varsDt>>
Spec == Init /\ [][Next]_vars

\* scalar port I/O
InitPort == Init
NextPort ==
    /\ \/ \E p \in PortNumbers, v \in U8Vals : outb(p, v)
       \/ \E p \in PortNumbers : inb(p)
       \/ \E p \in PortNumbers, v \in U16Vals : outw(p, v)
       \/ \E p \in PortNumbers : inw(p)
       \/ \E p \in PortNumbers, v \in U32Vals : outl(p, v)
       \/ \E p \in PortNumbers : inl(p)
    /\ UNCHANGED <<varsMsr, varsRep, varsIrq, varsDt>>
SpecPort == InitPort /\ [][NextPort]_vars

\* interrupt flag and halt, with interrupts arriving; a handler that was
\* entered returns
InitIrq ==
    /\ InitCommon /\ InitMsrVars({Zeros(8)}) /\ InitPortVars
    /\ InitRepVars({}) /\ InitIrqVars /\ InitDtVars
NextIrq ==
    /\ \/ enable_interrupts
       \/ disable_interrupts
       \/ halt
       \/ \E k \in {"maskable", "nmi"}, g \in {"interrupt", "trap"} : Deliver(k, g)
       \/ Iret
    /\ UNCHANGED <<varsMsr, varsPort, varsRep, varsDt>>
\* the handler's return, as a step of this specification
IretStep == Iret /\ UNCHANGED <<varsMsr, varsPort, varsRep, varsDt>>
SpecIrq == InitIrq /\ [][NextIrq]_vars /\ WF_vars(IretStep)

\* buffered port I/O and wrmsr, with interrupts arriving
InitRep ==
    /\ InitCommon /\ InitMsrVars({Zeros(8)}) /\ InitPortVars
    /\ InitRepVars(BufRegion) /\ InitIrqVars /\ InitDtVars
NextRep ==
    /\ \/ /\ \E p \in {Pattern(1, 2)}, b \in Slices :
                \/ outsb(p, b) \/ insb(p, b)
                \/ outsw(p, b) \/ insw(p, b)
                \/ outsl(p, b) \/ insl(p, b)
          /\ UNCHANGED <<varsMsr, varsIrq>>
       \/ RepStep /\ UNCHANGED <<varsMsr, varsIrq>>
       \/ /\ ~rep.active
          /\ \E v \in {Ones(8), Pattern(1, 8)} : wrmsr(Pattern(1, 4), v)
          /\ UNCHANGED <<varsRep, varsIrq>>
       \/ /\ stack = <<>>
          /\ \E k \in {"maskable", "nmi"} : Deliver(k, "interrupt")
          /\ UNCHANGED <<varsMsr, varsRep>>
       \/ Iret /\ UNCHANGED <<varsMsr, varsRep>>
    /\ UNCHANGED <<varsPort, varsDt>>
SpecRep == InitRep /\ [][NextRep]_vars

\* DescriptorTablePointer and the table loads
InitDt ==
    /\ InitCommon /\ InitMsrVars({Zeros(8)}) /\ InitPortVars
    /\ mem = [a \in DtRegion |-> 170] /\ rep = NoRep /\ xfer = <<>>
    /\ InitQuiet /\ InitDtVars
NextDt ==
    /\ \/ \E l \in DtLimits, b \in DtBases : NewDescriptorTablePointer(l, b)
       \/ lgdt
       \/ lldt
       \/ lidt
       \/ \E sel \in Selectors : load_tss(sel)
    /\ UNCHANGED <<varsMsr, varsPort, rep, xfer, varsIrq>>
SpecDt == InitDt /\ [][NextDt]_vars

---------------------------------------------------------------------------
(* Properties *)

\* C1: the value returned by rdtsc(), rdtscp() and rdmsr(index) is
\* (high << 32) | low for the halves the CPU delivered in edx (high) and
\* eax (low): high is bits 63..32, low is bits 31..0, unchanged; (0, 0)
\* gives 0 and (0xFFFFFFFF, 0xFFFFFFFF) gives 0xFFFFFFFFFFFFFFFF.
C1_Assembly ==
    lastOp.op \in {"rdtsc", "rdtscp", "rdmsr"} =>
        /\ Len(ret) = 8
        /\ \A i \in 1..4 : ret[i] = lastOp.high[i] /\ ret[4 + i] = lastOp.low[i]
        /\ (lastOp.high = Zeros(4) /\ lastOp.low = Zeros(4) => ret = Zeros(8))
        /\ (lastOp.high = Ones(4) /\ lastOp.low = Ones(4) => ret = Ones(8))

C1_Witness ==
    /\ lastOp.op = "rdtsc"
    /\ lastOp.high = Pattern(1, 4)
    /\ lastOp.low = Ones(4)
    /\ ret = Pattern(1, 4) \o Ones(4)

\* C2: rdmsr(i) returns the value v of the last wrmsr(i, v), whatever was
\* written to other registers in between.
C2_RoundTrip ==
    (lastOp.op = "rdmsr" /\ shadow[lastOp.msr] # NoValue) => ret = shadow[lastOp.msr]

C2_Witness ==
    /\ lastOp.op = "rdmsr"
    /\ shadow[lastOp.msr] = Pattern(1, 4) \o Ones(4)
    /\ ret = Pattern(1, 4) \o Ones(4)
    /\ \E j \in MsrIndexes : j # lastOp.msr /\ shadow[j] \notin {NoValue, ret}

\* C3: a scalar read (inb / inw / inl) from a loopback port returns the
\* value of the last scalar write of the same width (outb / outw / outl)
\* to that port, all of its 8, 16 or 32 bits.
C3_RoundTrip ==
    (/\ lastOp.op \in {"inb", "inw", "inl"}
     /\ Len(portShadow[lastOp.port]) = lastOp.width)
        => ret = portShadow[lastOp.port]

C3_Witness ==
    /\ lastOp.op \in {"inw", "inl"}
    /\ portShadow[lastOp.port] \in {Pattern(1, 2), Pattern(1, 4)}
    /\ ret = portShadow[lastOp.port]

\* a buffered operation that has returned
RepDone == lastOp.op \in RepOps /\ ~rep.active

\* C4: a buffered port operation called with port p and a buffer of length
\* N has performed, when it returns, exactly N unit transfers on port p,
\* the k-th of them on the k-th element of the buffer and none outside it.
C4_Claim ==
    RepDone =>
        /\ Len(xfer) = lastOp.len
        /\ \A k \in 1..Len(xfer) :
            /\ xfer[k].port = lastOp.port
            /\ xfer[k].addr = AddN(lastOp.ptr, (k - 1) * lastOp.w)

\* what does hold of the buffered operations: the number of transfers and
\* the port, and the addresses for a buffer below 4 GiB
BufferedCountAndPort ==
    RepDone =>
        /\ Len(xfer) = lastOp.len
        /\ \A k \in 1..Len(xfer) : xfer[k].port = lastOp.port
BufferedBelow4G ==
    (RepDone /\ High32(lastOp.ptr) = Zeros(4)) =>
        \A k \in 1..Len(xfer) : xfer[k].addr = AddN(lastOp.ptr, (k - 1) * lastOp.w)

\* C5: a DescriptorTablePointer is 10 bytes with no padding, limit in
\* bytes 0..1 and base in bytes 2..9, both little-endian, and the table
\* load instruction decodes those bytes to the same (limit, base).
C5_Layout ==
    dtp # NoDtp =>
        /\ DtpSize = 10
        /\ FieldOffset(1) = 0 /\ FieldOffset(2) = 2
        /\ \A k \in 0..1 : mem[AddN(dtp.addr, k)] = dtp.limit[2 - k]
        /\ \A k \in 0..7 : mem[AddN(dtp.addr, 2 + k)] = dtp.base[8 - k]
        /\ CpuLoadTable(mem, dtp.addr) = [limit |-> dtp.limit, base |-> dtp.base]

C5_Witness ==
    /\ dtp # NoDtp
    /\ dtp.limit = Pattern(1, 2)
    /\ dtp.base = <<0, 0>> \o Pattern(1, 6)
    /\ mem[dtp.addr] = Pattern(1, 2)[2]
    /\ mem[AddN(dtp.addr, 2)] = Pattern(1, 6)[6]

\* in the caller's context the flag is what the last call made it
FlagFollowsLastCall ==
    pc # "handler" =>
        /\ flagOp = "sti" => intFlag
        /\ flagOp = "cli" => ~intFlag

\* C6 as stated: the flag equals the effect of the most recent call, and no
\* asynchronous interrupt is delivered between a disable_interrupts() and
\* the next enable_interrupts().
C6_Claim ==
    /\ FlagFollowsLastCall
    /\ lastIrq.kind # "none" => lastIrq.flagOp # "cli"

\* C6 amended: the flag equals the effect of the most recent call, and no
\* maskable interrupt is delivered between a disable_interrupts() and the
\* next enable_interrupts(); a non-maskable one can be.
C6_Amended ==
    /\ FlagFollowsLastCall
    /\ lastIrq.kind = "maskable" => lastIrq.flagOp # "cli"

C6_Witness ==
    /\ flagOp = "cli" /\ pc = "run" /\ ~intFlag
    /\ lastIrq.kind = "nmi" /\ lastIrq.flagOp = "cli"
    /\ irqCount = 2

PartialTransfer ==
    /\ pc = "handler"
    /\ rep.active
    /\ Len(xfer) > 0
    /\ rep.count # Zeros(Len(rep.count))

\* every MSR written so far holds exactly the value last written to it
MsrsWhole == \A i \in MsrIndexes : shadow[i] # NoValue => msrs[i] = shadow[i]

\* C8 as stated: a handler never sees a buffered operation with only some
\* of its units transferred, nor an MSR holding halves of two values.
C8_Claim == pc = "handler" => (~PartialTransfer /\ MsrsWhole)

\* C8 amended: a handler never sees an MSR holding halves of two values;
\* it can see a buffered operation suspended between two unit transfers,
\* and then sees k whole units transferred and N - k left in the count.
C8_Amended ==
    pc = "handler" =>
        /\ MsrsWhole
        /\ rep.active =>
            /\ AddN(rep.count, Len(xfer)) = ToDigits(lastOp.len, Len(rep.count))
            /\ \A k \in 1..Len(xfer) : Len(xfer[k].val) = rep.w

C8_Witness ==
    /\ PartialTransfer
    /\ Len(xfer) = 1
    /\ shadow[Pattern(1, 4)] = Pattern(1, 8)
    /\ msrs[Pattern(1, 4)] = Pattern(1, 8)

\* C10: each of the four registers holds the operand of the last call of
\* its own operation: (ptr.limit, ptr.base) for lgdt, lldt and lidt, the
\* selector for load_tss.
C10_Claim ==
    /\ dtShadow.lgdt # NoValue =>
        gdtr.limit = dtShadow.lgdt.limit /\ gdtr.base = dtShadow.lgdt.base
    /\ dtShadow.lldt # NoValue =>
        ldtr.limit = dtShadow.lldt.limit /\ ldtr.base = dtShadow.lldt.base
    /\ dtShadow.lidt # NoValue =>
        idtr.limit = dtShadow.lidt.limit /\ idtr.base = dtShadow.lidt.base
    /\ dtShadow.load_tss # NoValue => tr.sel = dtShadow.load_tss

\* what does hold of the table loads: lgdt, lidt and load_tss load their
\* operand, and lldt loads ptr.limit as the selector of the LDT
TableLoadsExceptLldt ==
    /\ dtShadow.lgdt # NoValue =>
        gdtr.limit = dtShadow.lgdt.limit /\ gdtr.base = dtShadow.lgdt.base
    /\ dtShadow.lidt # NoValue =>
        idtr.limit = dtShadow.lidt.limit /\ idtr.base = dtShadow.lidt.base
    /\ dtShadow.load_tss # NoValue => tr.sel = dtShadow.load_tss
    /\ dtShadow.lldt # NoValue => ldtr.sel = dtShadow.lldt.limit

=============================================================================
